---- MODULE Spec2Model ----
(***************************************************************************)
(* PDF Forge: the page (Index), the file intake (FileUploader), the        *)
(* toolbar operations (PDFToolbar) and the annotation editor (PDFEditor /  *)
(* PDFCanvas) as a state machine.  pdf-lib, pdf.js and fabric.js are the   *)
(* libraries the code calls; they appear here only through the results     *)
(* the calls return (page lists, object lists, a thrown error).            *)
(***************************************************************************)
EXTENDS Integers, Sequences, FiniteSets, TLC

\* ------------------------------------------------------------------ bounds
MaxFiles == 3      \* longest uploaded list explored
MaxBatch == 2      \* longest batch handed to handleFiles
MaxOps   == 2      \* toolbar operations started in one behaviour
MaxPage  == 2      \* page count of the larger PDF
MaxObjs  == 3      \* objects on the canvas plus page renders under way
MaxLoads == 4      \* document loads under way
MaxEdits == 2      \* edits the form editor applies to a document

\* --------------------------------------------------------------- files
SizeLimit == 50 * 1024 * 1024

Mime(major, minor) == [major |-> major, minor |-> minor]

\* file.type === 'application/pdf'
IsPDF(file) == file.type = Mime("application", "pdf")

\* file.type.startsWith('image/')
IsImage(file) == file.type.major = "image"

\* A File: its name (a sequence of pieces of text), type, size in bytes and,
\* for a PDF, the number of pages pdf-lib finds in it.
MkFile(name, type, size, npages) ==
  [name |-> name, type |-> type, size |-> size, npages |-> npages]

FileA == MkFile(<<"a", ".pdf">>, Mime("application", "pdf"), SizeLimit, MaxPage)
FileB == MkFile(<<"b", ".pdf">>, Mime("application", "pdf"), 4096, 1)
FileP == MkFile(<<"p", ".png">>, Mime("image", "png"), 2048, 0)
FileJ == MkFile(<<"j", ".jpg">>, Mime("image", "jpeg"), 2048, 0)
FileG == MkFile(<<"g", ".gif">>, Mime("image", "gif"), 2048, 0)
FileT == MkFile(<<"t", ".txt">>, Mime("text", "plain"), 16, 0)
FileX == MkFile(<<"x", ".pdf">>, Mime("application", "pdf"), SizeLimit + 1, 1)

\* what a user can drop or pick
AnyFiles == {FileA, FileB, FileP, FileJ, FileG, FileT, FileX}

SeqsUpTo(S, n) == UNION {[1..k -> S] : k \in 1..n}

\* ------------------------------------------------------------ sequences
RECURSIVE Flat(_)
Flat(ss) == IF ss = <<>> THEN <<>> ELSE Head(ss) \o Flat(Tail(ss))

\* files.filter((_, i) => i !== index), index 0-based
RemoveAt(s, index) ==
  [k \in 1..(Len(s) - 1) |-> IF k <= index THEN s[k] ELSE s[k + 1]]

\* ------------------------------------------------------------- toasts
Toast(title, description, arg, variant) ==
  [title |-> title, description |-> description, arg |-> arg,
   variant |-> variant]

\* ------------------------------------------------- strings (splitPages)
\* A string is a sequence of one-character strings.
Digits == <<"0", "1", "2", "3", "4", "5", "6", "7", "8", "9">>

IsDigit(c) == \E d \in 1..10 : Digits[d] = c

DigitValue(c) == (CHOOSE d \in 1..10 : Digits[d] = c) - 1

\* numbers as JavaScript has them here: an integer or NaN
NaN == [nan |-> TRUE, v |-> 0]

Num(v) == [nan |-> FALSE, v |-> v]

\* n - 1
MinusOne(n) == IF n.nan THEN NaN ELSE Num(n.v - 1)

\* String.prototype.includes
Includes(s, c) == \E k \in 1..Len(s) : s[k] = c

\* String.prototype.split(c): the pieces between the separators, empty
\* pieces kept
RECURSIVE SplitFrom(_, _, _)
SplitFrom(s, c, cur) ==
  IF s = <<>> THEN <<cur>>
  ELSE IF Head(s) = c THEN <<cur>> \o SplitFrom(Tail(s), c, <<>>)
  ELSE SplitFrom(Tail(s), c, Append(cur, Head(s)))

StrSplit(s, c) == SplitFrom(s, c, <<>>)

RECURSIVE TrimStart(_)
TrimStart(s) ==
  IF s # <<>> /\ Head(s) = " " THEN TrimStart(Tail(s)) ELSE s

RECURSIVE TrimEnd(_)
TrimEnd(s) ==
  IF s # <<>> /\ s[Len(s)] = " " THEN TrimEnd(SubSeq(s, 1, Len(s) - 1)) ELSE s

\* String.prototype.trim
Trim(s) == TrimEnd(TrimStart(s))

\* the value of the longest prefix of digits, acc the value read so far
RECURSIVE DigitsValue(_, _)
DigitsValue(s, acc) ==
  IF s # <<>> /\ IsDigit(Head(s))
  THEN DigitsValue(Tail(s), 10 * acc + DigitValue(Head(s)))
  ELSE acc

\* parseInt: leading white space skipped, then the longest run of digits;
\* NaN when there is none (no sign can reach it: '-' is split on first)
ParseInt(s) ==
  LET t == TrimStart(s)
  IN  IF t # <<>> /\ IsDigit(Head(t)) THEN Num(DigitsValue(t, 0)) ELSE NaN

\* Array.from({ length: end - start + 1 }, (_, i) => start + i):
\* a NaN or negative length is an empty array
RangeArray(start, end) ==
  IF start.nan \/ end.nan \/ end.v - start.v + 1 <= 0 THEN <<>>
  ELSE [i \in 1..(end.v - start.v + 1) |-> Num(start.v + i - 1)]

\* (mutant) the end of a range left out
ParseRangeExclusive(range) ==
  IF Includes(range, "-")
  THEN LET parts == StrSplit(range, "-")
           start == MinusOne(ParseInt(Trim(parts[1])))
           end   == MinusOne(ParseInt(Trim(parts[2])))
       IN  RangeArray(start, MinusOne(end))
  ELSE <<MinusOne(ParseInt(Trim(range)))>>

\* one comma-separated piece of splitPages to 0-based page indices
ParseRange(range) ==
  IF Includes(range, "-")
  THEN LET parts == StrSplit(range, "-")
           start == MinusOne(ParseInt(Trim(parts[1])))
           end   == MinusOne(ParseInt(Trim(parts[2])))
       IN  RangeArray(start, end)
  ELSE <<MinusOne(ParseInt(Trim(range)))>>

\* splitPages.split(',').map(...).flat()
ParsePages(splitPages) ==
  LET ranges == StrSplit(splitPages, ",")
  IN  Flat([k \in 1..Len(ranges) |-> ParseRange(ranges[k])])

\* ------------------------------------------------------------- pdf-lib
Page(src, no, drawn) == [src |-> src, no |-> no, drawn |-> drawn]

\* PDFDocument.load(...).getPages()
DocPages(file) == [k \in 1..file.npages |-> Page(file.name, k, <<>>)]

\* copyPages(src, indices) throws on an index that names no page
CopyThrows(srcPages, indices) ==
  \E k \in 1..Len(indices) :
    indices[k].nan \/ indices[k].v < 0 \/ indices[k].v >= Len(srcPages)

\* copyPages(src, indices): a copy of each named page, in the order named
CopyPages(srcPages, indices) ==
  [k \in 1..Len(indices) |-> srcPages[indices[k].v + 1]]

BlankPage == Page(<<>>, 0, <<>>)

\* save(): a document without pages gets a default page unless
\* addDefaultPage is false
Save(pages, addDefaultPage, useObjectStreams) ==
  [pages |-> IF pages = <<>> /\ addDefaultPage THEN <<BlankPage>> ELSE pages,
   objectStreams |-> useObjectStreams]

\* blob.size: decided by the bytes saved, nothing else
BlobSize(blob) == Len(blob.pages) + (IF blob.objectStreams THEN 0 ELSE 1)

\* ---------------------------------------------------------------- state
VARIABLES
  selectedTool,      \* Index.selectedTool
  uploadedFiles,     \* Index.uploadedFiles
  processedFiles,    \* Index.processedFiles
  uploaderFiles,     \* FileUploader.uploadedFiles of the mounted uploader
  processing,        \* PDFToolbar.processing
  splitPages,        \* PDFToolbar.splitPages
  compressionLevel,  \* PDFToolbar.compressionLevel[0]
  mergeOrder,        \* PDFToolbar.mergeOrder
  ops,               \* the toolbar handlers suspended at an await
  opCount,           \* toolbar operations started so far
  toast,             \* the toast() calls of the latest step, in order
  event,             \* the handler the latest step ran, with its input
  pdfFile,           \* PDFEditor's file prop, PDFCanvas's pdfFile
  fabricCanvas,      \* the FabricCanvas exists (PDFCanvas and PDFEditor state)
  objects,           \* fabricCanvas.getObjects(), bottom first
  pdfDoc,            \* PDFCanvas.pdfDoc: <<>> for null, else <<the file loaded>>
  currentPage,       \* PDFEditor.currentPage, 0-based
  totalPages,        \* PDFEditor.totalPages
  canUndo,           \* PDFEditor.canUndo
  activeTool,        \* PDFEditor.activeTool
  renders,           \* renderPDFPage calls suspended at an await
  loading,           \* loadPDF / loadPDFInfo calls suspended at an await
  editorDoc,         \* form editor: PDFEditor.pdfDoc, <<>> for null
  editorProcessing,  \* form editor: PDFEditor.processing
  edits              \* form editor: apply / rotate handlers suspended

appVars == <<selectedTool, uploadedFiles, processedFiles, uploaderFiles,
             processing, splitPages, compressionLevel, mergeOrder, ops,
             opCount>>

\* the editor: PDFEditor with its PDFCanvas and PDFToolPanel
edVars == <<pdfFile, fabricCanvas, objects, pdfDoc, currentPage, totalPages,
            canUndo, activeTool, renders, loading>>

\* the form editor: the PDFEditor that edits the document with pdf-lib
formVars == <<editorDoc, editorProcessing, edits>>

vars == <<appVars, toast, event, edVars, formVars>>

Tools == {"split", "merge", "image-to-pdf", "compress", "edit"}

DefaultSplitPages == <<"1", "-", "2">>

DefaultCompressionLevel == 75

\* the Slider offers 10, 15, ..., 100; these are explored
CompressionLevels == {10, DefaultCompressionLevel, 100}

Event(name, arg) == [name |-> name, arg |-> arg]

\* {uploadedFiles.length > 0 && <PDFToolbar .../>} in the tool view
ToolbarMounted(tool, files) == tool # "upload" /\ Len(files) > 0

\* useEffect: setMergeOrder(files.map((_, index) => index))
MergeOrderEffect(files) == [k \in 1..Len(files) |-> k - 1]

\* The toolbar's state after Index re-renders with `tool` and `files`:
\* kept while it stays mounted (the effect on files runs), the useState
\* initial values when it is mounted anew or gone.
ToolbarRender(tool, files) ==
  IF ToolbarMounted(tool, files)
  THEN /\ IF ToolbarMounted(selectedTool, uploadedFiles)
          THEN UNCHANGED <<processing, splitPages, compressionLevel>>
          ELSE /\ processing' = FALSE
               /\ splitPages' = DefaultSplitPages
               /\ compressionLevel' = DefaultCompressionLevel
       /\ mergeOrder' = MergeOrderEffect(files)
  ELSE /\ processing' = FALSE
       /\ splitPages' = DefaultSplitPages
       /\ compressionLevel' = DefaultCompressionLevel
       /\ mergeOrder' = <<>>

\* the suspended handlers after that render: those of a toolbar that was
\* unmounted can no longer set its state
OpsRender(tool, files) ==
  IF ToolbarMounted(tool, files) /\ ToolbarMounted(selectedTool, uploadedFiles)
  THEN ops
  ELSE {[o EXCEPT !.live = FALSE] : o \in ops}

\* ----------------------------------------------------------------- Index
\* Index.handleFilesUploaded
UploadedToast(files) ==
  Toast("Files uploaded successfully", "file(s) ready for processing",
        Len(files), "default")

\* Index.handleFileProcessed
ProcessedToast(file) ==
  Toast("File processed successfully", "is ready for download",
        file.name, "default")

\* onClick={() => setSelectedTool(tool.id)} of a tool card
SelectTool(t) ==
  /\ selectedTool = "upload"
  /\ selectedTool' = t
  /\ uploaderFiles' = <<>>            \* the tool view mounts its own uploader
  /\ ToolbarRender(t, uploadedFiles)
  /\ ops' = OpsRender(t, uploadedFiles)
  /\ toast' = <<>>
  /\ event' = Event("setSelectedTool", t)
  /\ UNCHANGED <<uploadedFiles, processedFiles, opCount>>
  /\ UNCHANGED <<edVars, formVars>>

\* onClick={() => setSelectedTool('upload')} of Back to Tools
BackToTools ==
  /\ selectedTool # "upload"
  /\ selectedTool' = "upload"
  /\ uploaderFiles' = <<>>            \* the upload view mounts its own uploader
  /\ ToolbarRender("upload", uploadedFiles)
  /\ ops' = OpsRender("upload", uploadedFiles)
  /\ toast' = <<>>
  /\ event' = Event("setSelectedTool", "upload")
  /\ UNCHANGED <<uploadedFiles, processedFiles, opCount>>
  /\ UNCHANGED <<edVars, formVars>>

\* ---------------------------------------------------------- FileUploader
\* (mutant) the size test rejects a file of exactly the limit
RejectAtLimit(file) ==
  IF ~IsPDF(file) /\ ~IsImage(file) THEN "Invalid file type"
  ELSE IF file.size >= SizeLimit THEN "File too large"
  ELSE "none"

\* the test of handleFiles' filter: the title of the toast it raises, or
\* "none" for a file it keeps
Reject(file) ==
  IF ~IsPDF(file) /\ ~IsImage(file) THEN "Invalid file type"
  ELSE IF file.size > SizeLimit THEN "File too large"
  ELSE "none"

Accepted(file) == Reject(file) = "none"

RejectToast(file) ==
  Toast(Reject(file),
        IF Reject(file) = "Invalid file type" THEN "is not a PDF or image file"
        ELSE "exceeds 50MB limit",
        file.name, "destructive")

Rejected(file) == ~Accepted(file)

\* handleFiles, run by a closure that sees `seen` as uploadedFiles
HandleFiles(seen, files, name) ==
  LET validFiles == SelectSeq(files, Accepted)
      rejects    == SelectSeq(files, Rejected)
      newFiles   == seen \o validFiles
      toasts     == [k \in 1..Len(rejects) |-> RejectToast(rejects[k])]
  IN  /\ Len(newFiles) <= MaxFiles
      /\ event' = Event(name, files)
      /\ IF Len(validFiles) > 0
         THEN /\ uploaderFiles' = newFiles
              /\ uploadedFiles' = newFiles
              /\ toast' = Append(toasts, UploadedToast(newFiles))
              /\ ToolbarRender(selectedTool, newFiles)
              /\ ops' = OpsRender(selectedTool, newFiles)
         ELSE /\ toast' = toasts
              /\ UNCHANGED <<uploaderFiles, uploadedFiles, processing,
                             splitPages, compressionLevel, mergeOrder, ops>>
      /\ UNCHANGED <<selectedTool, processedFiles, opCount>>
      /\ UNCHANGED <<edVars, formVars>>

\* handleFileInput: the file picker; the handler of the current render
HandleFileInput(files) == HandleFiles(uploaderFiles, files, "handleFileInput")

\* handleDrop: useCallback(..., []) keeps the handler of the first render,
\* whose handleFiles sees the initial uploadedFiles
HandleDrop(files) == HandleFiles(<<>>, files, "handleDrop")

\* removeFile(index), index 0-based, from the X button of a listed file
RemoveFile(index) ==
  LET newFiles == RemoveAt(uploaderFiles, index)
  IN  /\ index < Len(uploaderFiles)
      /\ uploaderFiles' = newFiles
      /\ uploadedFiles' = newFiles
      /\ toast' = <<UploadedToast(newFiles)>>
      /\ event' = Event("removeFile", index)
      /\ ToolbarRender(selectedTool, newFiles)
      /\ ops' = OpsRender(selectedTool, newFiles)
      /\ UNCHANGED <<selectedTool, processedFiles, opCount>>
      /\ UNCHANGED <<edVars, formVars>>

\* ------------------------------------------------------------ PDFToolbar
\* name.replace('.pdf', ''): the first '.pdf' of the name dropped
RECURSIVE DropPdf(_)
DropPdf(name) ==
  IF name = <<>> THEN <<>>
  ELSE IF Head(name) = ".pdf" THEN Tail(name)
  ELSE <<Head(name)>> \o DropPdf(Tail(name))

\* `${file.name.replace('.pdf', '')}${suffix}`
DerivedName(file, suffix) == Append(DropPdf(file.name), suffix)

ErrorToast(description) == Toast("Error", description, 0, "destructive")

FailTitle(kind) ==
  CASE kind = "split"        -> "Split Failed"
    [] kind = "merge"        -> "Merge Failed"
    [] kind = "image-to-pdf" -> "Conversion Failed"
    [] kind = "compress"     -> "Compression Failed"
    [] kind = "edit"         -> "Edit Failed"

\* (mutant) the catch block's toast without its variant
FailToastPlain(kind) == Toast(FailTitle(kind), "An error occurred", 0, "default")

\* the toast of each handler's catch block
FailToast(kind) == Toast(FailTitle(kind), "An error occurred", 0, "destructive")

\* files.filter(file => file.type === 'application/pdf')
PdfFiles(files) == SelectSeq(files, IsPDF)

\* files.filter(file => file.type.startsWith('image/'))
ImageFiles(files) == SelectSeq(files, IsImage)

\* (mutant) the first-file test looks for a PDF anywhere in the list
FirstIsPdfAnywhere(files) == PdfFiles(files) # <<>>

\* !(files.length === 0 || files[0].type !== 'application/pdf')
FirstIsPdf(files) == Len(files) > 0 /\ IsPDF(files[1])

\* (mutant) one PDF is enough to merge
MergeValidOne(files) == Len(PdfFiles(files)) >= 1

\* !(pdfFiles.length < 2)
MergeValid(files) == Len(PdfFiles(files)) >= 2

\* !(imageFiles.length === 0)
ImageValid(files) == Len(ImageFiles(files)) > 0

Valid(kind, files) ==
  CASE kind = "merge"        -> MergeValid(files)
    [] kind = "image-to-pdf" -> ImageValid(files)
    [] OTHER                 -> FirstIsPdf(files)

ValidationToast(kind) ==
  CASE kind = "split"        -> ErrorToast("Please upload a PDF file to split")
    [] kind = "merge"        -> ErrorToast("Please upload at least 2 PDF files to merge")
    [] kind = "image-to-pdf" -> ErrorToast("Please upload image files to convert")
    [] kind = "compress"     -> ErrorToast("Please upload a PDF file to compress")
    [] kind = "edit"         -> ErrorToast("Please upload a PDF file to edit")

\* The handler of the current render, suspended at an await: what its
\* closure holds, and whether the toolbar that runs it is still mounted.
\* Between its awaits the handler touches only the document it builds, so
\* its awaits are one suspension: it ends in OpFinish or in OpThrow.
NewOp(kind) ==
  [id |-> opCount + 1, kind |-> kind, files |-> uploadedFiles,
   mergeOrder |-> mergeOrder, splitPages |-> splitPages,
   compressionLevel |-> compressionLevel, live |-> TRUE]

\* A click on the button of the tool shown; the button is disabled while
\* processing.  Validation first, then setProcessing(true) and the first
\* await.
Click(kind) ==
  /\ selectedTool = kind
  /\ ToolbarMounted(selectedTool, uploadedFiles)
  /\ ~processing
  /\ event' = Event("click", kind)
  /\ IF Valid(kind, uploadedFiles)
     THEN /\ opCount < MaxOps
          /\ processing' = TRUE
          /\ ops' = ops \cup {NewOp(kind)}
          /\ opCount' = opCount + 1
          /\ toast' = <<>>
     ELSE /\ toast' = <<ValidationToast(kind)>>
          /\ UNCHANGED <<processing, ops, opCount>>
  /\ UNCHANGED <<selectedTool, uploadedFiles, processedFiles, uploaderFiles,
                 splitPages, compressionLevel, mergeOrder>>
  /\ UNCHANGED <<edVars, formVars>>

HandleSplitPDF == Click("split")

HandleMergePDFs == Click("merge")

HandleImageToPDF == Click("image-to-pdf")

HandleCompressPDF == Click("compress")

HandleEditPDF == Click("edit")

\* page specifications typed in the main specification
SplitInputs ==
  { DefaultSplitPages, <<"2">>, <<"1", ",", " ", "1">>, <<"2", "-", "1">>,
    <<"x">> }

\* onChange={(e) => setSplitPages(e.target.value)}
SetSplitPages(value) ==
  /\ selectedTool = "split"
  /\ ToolbarMounted(selectedTool, uploadedFiles)
  /\ value # splitPages
  /\ splitPages' = value
  /\ toast' = <<>>
  /\ event' = Event("setSplitPages", value)
  /\ UNCHANGED <<selectedTool, uploadedFiles, processedFiles, uploaderFiles,
                 processing, compressionLevel, mergeOrder, ops, opCount>>
  /\ UNCHANGED <<edVars, formVars>>

\* onValueChange={setCompressionLevel}
SetCompressionLevel(value) ==
  /\ selectedTool = "compress"
  /\ ToolbarMounted(selectedTool, uploadedFiles)
  /\ value # compressionLevel
  /\ compressionLevel' = value
  /\ toast' = <<>>
  /\ event' = Event("setCompressionLevel", value)
  /\ UNCHANGED <<selectedTool, uploadedFiles, processedFiles, uploaderFiles,
                 processing, splitPages, mergeOrder, ops, opCount>>
  /\ UNCHANGED <<edVars, formVars>>

\* (mutant) the merge loop indexes the unfiltered list
MergeSourcesUnfiltered(files, order) ==
  LET Loads(index) == index < Len(PdfFiles(files))
      loads == SelectSeq(order, Loads)
  IN  [k \in 1..Len(loads) |-> files[loads[k] + 1]]

\* for (const index of mergeOrder) if (index < pdfFiles.length)
\*   file = pdfFiles[index]: the files the loop loads, in loop order
MergeSources(files, order) ==
  LET pdfFiles == PdfFiles(files)
      Loads(index) == index < Len(pdfFiles)
      loads == SelectSeq(order, Loads)
  IN  [k \in 1..Len(loads) |-> pdfFiles[loads[k] + 1]]

JPEG == {Mime("image", "jpeg"), Mime("image", "jpg")}

PNG == {Mime("image", "png")}

\* the image loop embeds JPEG and PNG and `continue`s on any other type
Embeds(file) == file.type \in JPEG \cup PNG

\* pdfDoc.addPage([image.width, image.height]); page.drawImage(image, ...)
ImagePage(file) == Page(file.name, 0, <<file.name>>)

\* pages[0].drawText('Sample Edit - Text Added by PDF Forge', ...)
EditPages(pages) ==
  [k \in 1..Len(pages) |->
     IF k = 1 THEN [pages[k] EXCEPT !.drawn = Append(@, "Sample Edit")]
     ELSE pages[k]]

\* const file = files[0]
FirstFile(files) == files[1]

\* The pages of the document a handler holds when it reaches save(): all
\* its awaited loads done, in the order of its loop.
LoadedPages(o) ==
  CASE o.kind = "merge" ->
         LET sources == MergeSources(o.files, o.mergeOrder)
         IN  Flat([k \in 1..Len(sources) |-> DocPages(sources[k])])
    [] o.kind = "image-to-pdf" ->
         LET images == ImageFiles(o.files)
         IN  Flat([k \in 1..Len(images) |->
                     IF Embeds(images[k]) THEN <<ImagePage(images[k])>>
                     ELSE <<>>])
    [] OTHER -> DocPages(FirstFile(o.files))

\* the code between the loads and save() throws
Throws(o) ==
  o.kind = "split" /\ CopyThrows(LoadedPages(o), ParsePages(o.splitPages))

\* pdfDoc.save({ useObjectStreams: false, addDefaultPage: false })
CompressBlob(o) == Save(LoadedPages(o), FALSE, FALSE)

\* pdfBytes of the handler, all loads done
OutBlob(o) ==
  CASE o.kind = "split" ->
         Save(CopyPages(LoadedPages(o), ParsePages(o.splitPages)), TRUE, TRUE)
    [] o.kind = "compress" -> CompressBlob(o)
    [] o.kind = "edit"     -> Save(EditPages(LoadedPages(o)), TRUE, TRUE)
    [] OTHER               -> Save(LoadedPages(o), TRUE, TRUE)

OutName(o) ==
  CASE o.kind = "split"        -> DerivedName(FirstFile(o.files), "_split.pdf")
    [] o.kind = "merge"        -> <<"merged_document.pdf">>
    [] o.kind = "image-to-pdf" -> <<"images_to_pdf.pdf">>
    [] o.kind = "compress"     -> DerivedName(FirstFile(o.files), "_compressed.pdf")
    [] o.kind = "edit"         -> DerivedName(FirstFile(o.files), "_edited.pdf")

SuccessToast(o) ==
  CASE o.kind = "split" ->
         Toast("PDF Split Successfully", "Extracted pages",
               Len(ParsePages(o.splitPages)), "default")
    [] o.kind = "merge" ->
         Toast("PDFs Merged Successfully", "Combined PDF files",
               Len(PdfFiles(o.files)), "default")
    [] o.kind = "image-to-pdf" ->
         Toast("Images Converted Successfully", "Created PDF from images",
               Len(ImageFiles(o.files)), "default")
    [] o.kind = "compress" ->
         Toast("PDF Compressed Successfully", "File size reduced",
               FirstFile(o.files).size - BlobSize(OutBlob(o)), "default")
    [] o.kind = "edit" ->
         Toast("PDF Edited Successfully",
               "Sample text has been added to the document", 0, "default")

\* (mutant) the handler ends without its finally block
FinallySkipped(o) == UNCHANGED processing

\* finally { setProcessing(false) }: the state of the toolbar that started
\* the handler, if that toolbar is still mounted
Finally(o) == processing' = IF o.live THEN FALSE ELSE processing

\* an awaited call of handler o rejects, or the code after it throws: catch
OpThrow(o) ==
  /\ toast' = <<FailToast(o.kind)>>
  /\ Finally(o)
  /\ ops' = ops \ {o}
  /\ event' = Event("throw", o)
  /\ UNCHANGED <<selectedTool, uploadedFiles, processedFiles, uploaderFiles,
                 splitPages, compressionLevel, mergeOrder, opCount>>
  /\ UNCHANGED <<edVars, formVars>>

\* (mutant) handleFileProcessed sets the list from the value it rendered with
ProcessedReplace(prev, processedFile) == <<processedFile>>

\* setProcessedFiles(prev => [...prev, processedFile])
ProcessedAppend(prev, processedFile) == Append(prev, processedFile)

\* every awaited call of handler o resolves: Blob, createObjectURL,
\* onFileProcessed, the success toast, finally
OpFinish(o) ==
  /\ ~Throws(o)
  /\ LET processedFile == [name |-> OutName(o),
                           url  |-> Len(processedFiles) + 1,
                           blob |-> OutBlob(o)]
     IN  /\ processedFiles' = ProcessedAppend(processedFiles, processedFile)
         /\ toast' = <<ProcessedToast(processedFile), SuccessToast(o)>>
  /\ Finally(o)
  /\ ops' = ops \ {o}
  /\ event' = Event("finish", o)
  /\ UNCHANGED <<selectedTool, uploadedFiles, uploaderFiles, splitPages,
                 compressionLevel, mergeOrder, opCount>>
  /\ UNCHANGED <<edVars, formVars>>

\* ------------------------------------------------------------ PDFEditor
\* PDFEditor with the PDFCanvas and the PDFToolPanel it renders. The canvas
\* is the fabric object list: add() puts an object on top, sendObjectToBack()
\* moves it to the bottom, remove() and clear() take objects away, and each
\* of them fires the object:added / object:removed listeners.

\* the `tools` of the tool panel
EditorTools == {"select", "text", "draw", "rectangle", "circle", "eraser"}

\* what the user can draw with the free-drawing brush
Strokes == {"stroke1", "stroke2"}

\* FabricImage.fromURL(dataURL) of a page rendered by pdf.js
PageImage(doc, page) ==
  [type |-> "image", src |-> doc.name, page |-> page, stroke |-> ""]

\* the Path the free-drawing brush creates
PathObject(stroke) ==
  [type |-> "path", src |-> <<>>, page |-> 0, stroke |-> stroke]

\* the objects the user put on the canvas
Annotations(objs) == SelectSeq(objs, LAMBDA obj : obj.type # "image")

\* the canvas holds the image of `page` of the loaded document
Displays(objs, doc, page) ==
  /\ doc # <<>>
  /\ \E k \in 1..Len(objs) : objs[k] = PageImage(doc[1], page)

\* room on the canvas for one more object or one more render under way
Room == Len(objects) + Len(renders) < MaxObjs

\* a renderPDFPage call suspended at getPage / render / fromURL
Render(doc, page) == [doc |-> doc, page |-> page]

\* pdfDoc.getPage(currentPage + 1) resolves
HasPage(doc, page) == page + 1 >= 1 /\ page + 1 <= doc.npages

\* useEffect(() => { if (fabricCanvas && pdfDoc) renderPDFPage() },
\*           [fabricCanvas, pdfDoc, currentPage]), run when a dependency
\* has changed: the page number, or the document, which is a new object
\* at every load
RenderEffect(changed, doc, page) ==
  renders' = IF fabricCanvas /\ doc # <<>> /\ changed
             THEN Append(renders, Render(doc[1], page))
             ELSE renders

\* updateUndoRedo: setCanUndo(fabricCanvas.getObjects().length > 0)
UpdateUndoRedo(objs) == canUndo' = (Len(objs) > 0)

\* fabricCanvas.clear()
Clear(objs) == <<>>

\* a load suspended at an await: the function and the file of its closure
Load(fn, f) == [fn |-> fn, file |-> f]

\* useEffect(() => { loadPDF() }, [pdfFile]) of PDFCanvas and
\* useEffect(() => { loadPDFInfo() }, [file]) of the PDFEditor that renders
\* it; useEffect(() => { loadPDF() }, [file]) of the form editor
FileEffect(canvas, f) ==
  IF canvas
  THEN <<Load("PDFCanvas.loadPDF", f[1]), Load("loadPDFInfo", f[1])>>
  ELSE <<Load("PDFEditor.loadPDF", f[1])>>

\* the load at `index` of the loads under way is a call of `fn`
Loading(index, fn) == index < Len(loading) /\ loading[index + 1].fn = fn

\* the editor is not on the page
NoEditor ==
  /\ pdfFile = <<>>
  /\ fabricCanvas = FALSE
  /\ objects = <<>>
  /\ pdfDoc = <<>>
  /\ currentPage = 0
  /\ totalPages = 0
  /\ canUndo = FALSE
  /\ activeTool = "select"
  /\ renders = <<>>
  /\ loading = <<>>
  /\ editorDoc = <<>>
  /\ editorProcessing = FALSE
  /\ edits = {}

\* The editor after its first commit: the mount effects have created the
\* canvas and started loadPDF (PDFCanvas) and loadPDFInfo (PDFEditor).
EditorMounted(files) ==
  /\ pdfFile \in {<<f>> : f \in files}
  /\ fabricCanvas = TRUE
  /\ objects = <<>>
  /\ pdfDoc = <<>>
  /\ currentPage = 0
  /\ totalPages = 0
  /\ canUndo = FALSE
  /\ activeTool = "select"
  /\ renders = <<>>
  /\ loading = FileEffect(TRUE, pdfFile)
  /\ editorDoc = <<>>
  /\ editorProcessing = FALSE
  /\ edits = {}

\* PDFCanvas.loadPDF: setPdfDoc(pdf)
LoadPDFResolve(index) ==
  /\ Loading(index, "PDFCanvas.loadPDF")
  /\ Room
  /\ loading' = RemoveAt(loading, index)
  /\ pdfDoc' = <<loading[index + 1].file>>
  /\ RenderEffect(TRUE, pdfDoc', currentPage)
  /\ toast' = <<>>
  /\ event' = Event("loadPDF", pdfDoc')
  /\ UNCHANGED <<pdfFile, fabricCanvas, objects, currentPage, totalPages,
                 canUndo, activeTool>>
  /\ UNCHANGED <<appVars, formVars>>

\* PDFCanvas.loadPDF: catch
LoadPDFReject(index) ==
  /\ Loading(index, "PDFCanvas.loadPDF")
  /\ loading' = RemoveAt(loading, index)
  /\ toast' = <<ErrorToast("Failed to load PDF")>>
  /\ event' = Event("loadPDF catch", <<loading[index + 1].file>>)
  /\ UNCHANGED <<pdfFile, fabricCanvas, objects, pdfDoc, currentPage,
                 totalPages, canUndo, activeTool, renders>>
  /\ UNCHANGED <<appVars, formVars>>

\* PDFEditor.loadPDFInfo: setTotalPages(pdfDoc.getPageCount())
LoadPDFInfoResolve(index) ==
  /\ Loading(index, "loadPDFInfo")
  /\ loading' = RemoveAt(loading, index)
  /\ totalPages' = loading[index + 1].file.npages
  /\ toast' = <<Toast("PDF Loaded", "Ready to edit pages", totalPages',
                      "default")>>
  /\ event' = Event("loadPDFInfo", <<loading[index + 1].file>>)
  /\ UNCHANGED <<pdfFile, fabricCanvas, objects, pdfDoc, currentPage, canUndo,
                 activeTool, renders>>
  /\ UNCHANGED <<appVars, formVars>>

\* PDFEditor.loadPDFInfo: catch
LoadPDFInfoReject(index) ==
  /\ Loading(index, "loadPDFInfo")
  /\ loading' = RemoveAt(loading, index)
  /\ toast' = <<ErrorToast("Failed to load PDF for editing")>>
  /\ event' = Event("loadPDFInfo catch", <<loading[index + 1].file>>)
  /\ UNCHANGED <<pdfFile, fabricCanvas, objects, pdfDoc, currentPage,
                 totalPages, canUndo, activeTool, renders>>
  /\ UNCHANGED <<appVars, formVars>>

\* Math.max / Math.min
Max(a, b) == IF a >= b THEN a ELSE b

Min(a, b) == IF a <= b THEN a ELSE b

\* setCurrentPage(page) and the render effect of PDFCanvas
SetCurrentPage(page, name) ==
  /\ Room
  /\ currentPage' = page
  /\ RenderEffect(page # currentPage, pdfDoc, page)
  /\ toast' = <<>>
  /\ event' = Event(name, page)
  /\ UNCHANGED <<pdfFile, fabricCanvas, objects, pdfDoc, totalPages, canUndo,
                 activeTool, loading>>
  /\ UNCHANGED <<appVars, formVars>>

\* the Previous button: disabled={currentPage === 0}
PreviousPage ==
  /\ currentPage # 0
  /\ SetCurrentPage(Max(0, currentPage - 1), "previousPage")

\* the Next button: disabled={currentPage === totalPages - 1}
NextPage ==
  /\ currentPage # totalPages - 1
  /\ SetCurrentPage(Min(totalPages - 1, currentPage + 1), "nextPage")

\* renderPDFPage: fabricCanvas.add(img); fabricCanvas.sendObjectToBack(img)
RenderResolve(index) ==
  /\ index < Len(renders)
  /\ LET r == renders[index + 1] IN
       /\ HasPage(r.doc, r.page)
       /\ objects' = <<PageImage(r.doc, r.page)>> \o objects
       /\ UpdateUndoRedo(objects')
       /\ event' = Event("renderPDFPage", r)
  /\ renders' = RemoveAt(renders, index)
  /\ toast' = <<>>
  /\ UNCHANGED <<pdfFile, fabricCanvas, pdfDoc, currentPage, totalPages,
                 activeTool, loading>>
  /\ UNCHANGED <<appVars, formVars>>

\* renderPDFPage: catch
RenderReject(index) ==
  /\ index < Len(renders)
  /\ renders' = RemoveAt(renders, index)
  /\ toast' = <<ErrorToast("Failed to render PDF page")>>
  /\ event' = Event("renderPDFPage catch", renders[index + 1])
  /\ UNCHANGED <<pdfFile, fabricCanvas, objects, pdfDoc, currentPage,
                 totalPages, canUndo, activeTool, loading>>
  /\ UNCHANGED <<appVars, formVars>>

\* onToolChange={setActiveTool}
SetActiveTool(tool) ==
  /\ activeTool' = tool
  /\ toast' = <<>>
  /\ event' = Event("setActiveTool", tool)
  /\ UNCHANGED <<pdfFile, fabricCanvas, objects, pdfDoc, currentPage,
                 totalPages, canUndo, renders, loading>>
  /\ UNCHANGED <<appVars, formVars>>

\* updateCanvasMode: isDrawingMode = true under the draw tool; the brush
\* adds its Path on mouse up
PathCreated(stroke) ==
  /\ fabricCanvas
  /\ activeTool = "draw"
  /\ Room
  /\ objects' = Append(objects, PathObject(stroke))
  /\ UpdateUndoRedo(objects')
  /\ toast' = <<>>
  /\ event' = Event("path:created", stroke)
  /\ UNCHANGED <<pdfFile, fabricCanvas, pdfDoc, currentPage, totalPages,
                 activeTool, renders, loading>>
  /\ UNCHANGED <<appVars, formVars>>

\* handleUndo, behind the Undo button (disabled={!canUndo})
HandleUndo ==
  /\ fabricCanvas
  /\ canUndo
  /\ objects' = IF Len(objects) > 0 THEN SubSeq(objects, 1, Len(objects) - 1)
                ELSE objects
  /\ IF Len(objects) > 0 THEN UpdateUndoRedo(objects') ELSE UNCHANGED canUndo
  /\ toast' = <<>>
  /\ event' = Event("handleUndo", 0)
  /\ UNCHANGED <<pdfFile, fabricCanvas, pdfDoc, currentPage, totalPages,
                 activeTool, renders, loading>>
  /\ UNCHANGED <<appVars, formVars>>

\* handleClear, behind the Clear All button
HandleClear ==
  /\ fabricCanvas
  /\ objects' = Clear(objects)
  /\ UpdateUndoRedo(objects')
  /\ toast' = <<Toast("Canvas Cleared", "All annotations have been removed",
                      0, "default")>>
  /\ event' = Event("handleClear", 0)
  /\ UNCHANGED <<pdfFile, fabricCanvas, pdfDoc, currentPage, totalPages,
                 activeTool, renders, loading>>
  /\ UNCHANGED <<appVars, formVars>>

\* the points of the canvas the user clicks
Pointers == {<<10, 10>>, <<40, 20>>}

\* what handleMouseDown adds under `tool` at `pointer`: addText's FabricText,
\* a Rect or a Circle of no extent yet, nothing under the other tools
Placed(tool, pointer) ==
  CASE tool = "text" ->
         <<[type |-> "text", left |-> pointer[1], top |-> pointer[2]]>>
    [] tool = "rectangle" ->
         <<[type |-> "rect", left |-> pointer[1], top |-> pointer[2]]>>
    [] tool = "circle" ->
         <<[type |-> "circle", left |-> pointer[1], top |-> pointer[2]]>>
    [] OTHER -> <<>>

\* handleMouseDown as a closure over the `fabricCanvas` state and the
\* `activeTool` prop of the render that made it
HandleMouseDown(canvas, tool, objs, pointer) ==
  IF ~canvas THEN objs ELSE objs \o Placed(tool, pointer)

\* useState<FabricCanvas | null>(null) and useState('select'): what the first
\* render of PDFCanvas sees
FirstRenderCanvas == FALSE

FirstRenderTool == "select"

\* canvas.on('mouse:down', handleMouseDown): registered once, by the mount
\* effect, with the handler of the first render; the effect registers nothing
\* when it runs again, because fabricCanvas is set by then
MouseDown(pointer) ==
  /\ fabricCanvas
  /\ objects' = HandleMouseDown(FirstRenderCanvas, FirstRenderTool, objects,
                                pointer)
  /\ UNCHANGED canUndo
  /\ toast' = <<>>
  /\ event' = Event("mouse:down", pointer)
  /\ UNCHANGED <<pdfFile, fabricCanvas, pdfDoc, currentPage, totalPages,
                 activeTool, renders, loading>>
  /\ UNCHANGED <<appVars, formVars>>

\* ------------------------------------------------- PDFEditor, form editor
\* The PDFEditor that edits the document itself with pdf-lib: a tool, its
\* settings, one Apply button, two rotate buttons.

\* the `tools` of the form editor
FormTools == {"text", "image", "rectangle", "circle", "line", "arrow",
              "highlight", "erase", "rotate", "crop"}

\* the tools handleToolAction has a case for
AppliedTools == {"text", "rectangle", "circle", "line", "highlight"}

\* PDFDocument.load(arrayBuffer) of a file
PDFDocumentOf(f) == [file |-> f, pages |-> DocPages(f)]

\* pdfDoc.getPages()[page] is a page
HasPdfPage(doc, page) == page >= 0 /\ page < Len(doc.pages)

\* page.drawText / drawRectangle / drawCircle / drawLine / setRotation on
\* pages[page]
Drawn(doc, page, mark) ==
  [doc EXCEPT !.pages[page + 1].drawn = Append(@, mark)]

\* what has been drawn on the document so far
DrawnCount(doc) ==
  Len(Flat([k \in 1..Len(doc.pages) |-> doc.pages[k].drawn]))

\* the catch toast of each handler
EditFailToast(kind) ==
  ErrorToast(CASE kind = "text"      -> "Failed to add text"
               [] kind = "rectangle" -> "Failed to add rectangle"
               [] kind = "circle"    -> "Failed to add circle"
               [] kind = "line"      -> "Failed to add line"
               [] kind = "highlight" -> "Failed to add highlight"
               [] OTHER              -> "Failed to rotate page")

\* a handler suspended at an await, with the document, the page and the
\* file of its closure
Edit(kind, doc, page, f) == [kind |-> kind, doc |-> doc, page |-> page,
                             file |-> f]

\* The form editor after its first commit: the mount effect has started
\* loadPDF.
FormEditorMounted(files) ==
  /\ pdfFile \in {<<f>> : f \in files}
  /\ fabricCanvas = FALSE
  /\ objects = <<>>
  /\ pdfDoc = <<>>
  /\ currentPage = 0
  /\ totalPages = 0
  /\ canUndo = FALSE
  /\ activeTool = "text"
  /\ renders = <<>>
  /\ loading = FileEffect(FALSE, pdfFile)
  /\ editorDoc = <<>>
  /\ editorProcessing = FALSE
  /\ edits = {}

\* PDFEditor.loadPDF: setPdfDoc(doc); setTotalPages(doc.getPageCount())
EditorLoadResolve(index) ==
  /\ Loading(index, "PDFEditor.loadPDF")
  /\ loading' = RemoveAt(loading, index)
  /\ editorDoc' = <<PDFDocumentOf(loading[index + 1].file)>>
  /\ totalPages' = Len(editorDoc'[1].pages)
  /\ toast' = <<Toast("PDF Loaded", "Ready to edit pages", totalPages',
                      "default")>>
  /\ event' = Event("PDFEditor.loadPDF", <<loading[index + 1].file>>)
  /\ UNCHANGED <<pdfFile, fabricCanvas, objects, pdfDoc, currentPage, canUndo,
                 activeTool, renders, editorProcessing, edits>>
  /\ UNCHANGED appVars

\* PDFEditor.loadPDF: catch
EditorLoadReject(index) ==
  /\ Loading(index, "PDFEditor.loadPDF")
  /\ loading' = RemoveAt(loading, index)
  /\ toast' = <<ErrorToast("Failed to load PDF for editing")>>
  /\ event' = Event("PDFEditor.loadPDF catch", <<loading[index + 1].file>>)
  /\ UNCHANGED <<pdfFile, fabricCanvas, objects, pdfDoc, currentPage,
                 totalPages, canUndo, activeTool, renders>>
  /\ UNCHANGED <<appVars, formVars>>

\* applyTextEdit, applyShapeEdit, applyLineEdit, applyHighlight, rotatePage
\* up to the first await.  applyTextEdit awaits embedFont before it touches
\* the page; the others draw first, and a page that does not exist throws
\* there, into catch and finally, in the same step.
StartEdit(kind) ==
  LET doc == editorDoc[1] IN
  IF kind = "text"
  THEN /\ editorProcessing' = TRUE
       /\ edits' = edits \cup {Edit(kind, doc, currentPage, pdfFile[1])}
       /\ toast' = <<>>
       /\ UNCHANGED editorDoc
  ELSE IF HasPdfPage(doc, currentPage)
  THEN /\ editorProcessing' = TRUE
       /\ editorDoc' = <<Drawn(doc, currentPage, kind)>>
       /\ edits' = edits \cup {Edit(kind, editorDoc'[1], currentPage,
                                    pdfFile[1])}
       /\ toast' = <<>>
  ELSE /\ toast' = <<EditFailToast(kind)>>
       /\ UNCHANGED <<editorProcessing, editorDoc, edits>>

\* room for one more edit of the document
EditRoom ==
  editorDoc # <<>> => DrawnCount(editorDoc[1]) + Cardinality(edits) < MaxEdits

\* handleToolAction, behind the Apply button
\* (disabled={processing || !pdfDoc})
HandleToolAction ==
  /\ pdfFile # <<>>
  /\ ~editorProcessing
  /\ editorDoc # <<>>
  /\ EditRoom
  /\ event' = Event("handleToolAction", activeTool)
  /\ IF activeTool \in AppliedTools
     THEN StartEdit(activeTool)
     ELSE /\ toast' = <<Toast("Tool Not Implemented", "tool is coming soon!",
                              activeTool, "default")>>
          /\ UNCHANGED <<editorProcessing, editorDoc, edits>>
  /\ UNCHANGED <<appVars, edVars>>

\* rotatePage(direction), behind the two buttons of the rotate tool
\* (disabled={processing})
RotatePage(direction) ==
  /\ pdfFile # <<>>
  /\ activeTool = "rotate"
  /\ ~editorProcessing
  /\ EditRoom
  /\ event' = Event("rotatePage", direction)
  /\ IF editorDoc = <<>>
     THEN /\ toast' = <<>>
          /\ UNCHANGED <<editorProcessing, editorDoc, edits>>
     ELSE StartEdit(direction)
  /\ UNCHANGED <<appVars, edVars>>

\* the code after the awaits of handler e throws: on a page that does not
\* exist
EditThrows(e) == ~HasPdfPage(e.doc, e.page)

\* finally { setProcessing(false) }
EditFinally == editorProcessing' = FALSE

\* an awaited call of handler e rejects, or the code after it throws: catch
EditThrow(e) ==
  /\ toast' = <<EditFailToast(e.kind)>>
  /\ EditFinally
  /\ edits' = edits \ {e}
  /\ event' = Event("editThrow", e)
  /\ UNCHANGED editorDoc
  /\ UNCHANGED <<appVars, edVars>>

\* every awaited call of handler e resolves: savePDF hands the saved
\* document to onFileProcessed, then finally
EditFinish(e) ==
  /\ ~EditThrows(e)
  /\ LET doc == IF e.kind = "text" THEN Drawn(e.doc, e.page, e.kind)
                ELSE e.doc
         processedFile == [name |-> DerivedName(e.file, "_edited.pdf"),
                           url  |-> Len(processedFiles) + 1,
                           blob |-> Save(doc.pages, TRUE, TRUE)]
     IN  /\ processedFiles' = ProcessedAppend(processedFiles, processedFile)
         /\ editorDoc' = IF e.kind = "text" /\ editorDoc = <<e.doc>>
                         THEN <<doc>> ELSE editorDoc
         /\ toast' = <<ProcessedToast(processedFile),
                       Toast("Edit Applied",
                             "Your changes have been saved to the PDF", 0,
                             "default")>>
  /\ EditFinally
  /\ edits' = edits \ {e}
  /\ event' = Event("editFinish", e)
  /\ UNCHANGED <<selectedTool, uploadedFiles, uploaderFiles, processing,
                 splitPages, compressionLevel, mergeOrder, ops, opCount>>
  /\ UNCHANGED edVars

\* The parent renders the editor with another file: the effects on [file]
\* and [pdfFile] run again and start new loads beside the ones under way;
\* no state of the editor is reset.
SetFile(f) ==
  /\ pdfFile # <<>>
  /\ pdfFile # <<f>>
  /\ Len(loading) + Len(FileEffect(fabricCanvas, <<f>>)) <= MaxLoads
  /\ pdfFile' = <<f>>
  /\ loading' = loading \o FileEffect(fabricCanvas, pdfFile')
  /\ toast' = <<>>
  /\ event' = Event("file", pdfFile')
  /\ UNCHANGED <<fabricCanvas, objects, pdfDoc, currentPage, totalPages,
                 canUndo, activeTool, renders>>
  /\ UNCHANGED <<appVars, formVars>>

\* -------------------------------------------------------- specification
Singles(S) == {<<f>> : f \in S}

\* the page as Index constructs it
InitApp ==
  /\ selectedTool = "upload"
  /\ uploadedFiles = <<>>
  /\ processedFiles = <<>>
  /\ uploaderFiles = <<>>
  /\ processing = FALSE
  /\ splitPages = DefaultSplitPages
  /\ compressionLevel = DefaultCompressionLevel
  /\ mergeOrder = <<>>
  /\ ops = {}
  /\ opCount = 0
  /\ toast = <<>>
  /\ event = Event("init", 0)

\* Index renders no PDFEditor
Init == InitApp /\ NoEditor

\* The state after the user has picked a batch of accepted files in the
\* upload view, the batch drawn from `lists`.
PickedApp(lists) ==
  /\ selectedTool = "upload"
  /\ uploadedFiles \in lists
  /\ uploaderFiles = uploadedFiles
  /\ processedFiles = <<>>
  /\ processing = FALSE
  /\ splitPages = DefaultSplitPages
  /\ compressionLevel = DefaultCompressionLevel
  /\ mergeOrder = <<>>
  /\ ops = {}
  /\ opCount = 0
  /\ toast = <<UploadedToast(uploadedFiles)>>
  /\ event = Event("handleFileInput", uploadedFiles)

Picked(lists) == PickedApp(lists) /\ NoEditor

\* the whole page from its construction: a PDF picked again and again, the
\* compress and the edit tool
Next ==
  \/ \E t \in {"compress", "edit"} : SelectTool(t)
  \/ BackToTools
  \/ \E files \in Singles({FileA}) : HandleFileInput(files)
  \/ \E index \in 0..(MaxFiles - 1) : RemoveFile(index)
  \/ HandleCompressPDF
  \/ HandleEditPDF
  \/ \E o \in ops : OpThrow(o)
  \/ \E o \in ops : OpFinish(o)

Spec == Init /\ [][Next]_vars

\* the intake alone: every kind of file, batches, both ways in
IntakeFiles == {FileA, FileP, FileT, FileX}

Batches == SeqsUpTo(IntakeFiles, MaxBatch)

NextIntake ==
  \/ \E t \in Tools : SelectTool(t)
  \/ BackToTools
  \/ \E files \in Batches : HandleFileInput(files)
  \/ \E files \in Batches : HandleDrop(files)
  \/ \E index \in 0..(MaxFiles - 1) : RemoveFile(index)

SpecIntake == Init /\ [][NextIntake]_vars

\* the five tools on a picked batch of PDFs and images
InitTools == Picked(SeqsUpTo({FileA, FileP}, MaxFiles))

NextTools ==
  \/ \E t \in Tools : SelectTool(t)
  \/ BackToTools
  \/ HandleSplitPDF
  \/ HandleMergePDFs
  \/ HandleImageToPDF
  \/ HandleCompressPDF
  \/ HandleEditPDF
  \/ \E o \in ops : OpThrow(o)
  \/ \E o \in ops : OpFinish(o)

SpecTools == InitTools /\ [][NextTools]_vars

\* the image tool on a picked batch of images of three types and a PDF
InitImage == Picked(SeqsUpTo({FileP, FileJ, FileG, FileB}, MaxFiles))

NextImage ==
  \/ SelectTool("image-to-pdf")
  \/ BackToTools
  \/ HandleImageToPDF
  \/ \E o \in ops : OpThrow(o)
  \/ \E o \in ops : OpFinish(o)

SpecImage == InitImage /\ [][NextImage]_vars

\* the compress tool with its slider
InitCompress == Picked(SeqsUpTo({FileA, FileB}, MaxFiles))

NextCompress ==
  \/ SelectTool("compress")
  \/ BackToTools
  \/ \E value \in CompressionLevels : SetCompressionLevel(value)
  \/ HandleCompressPDF
  \/ \E o \in ops : OpThrow(o)
  \/ \E o \in ops : OpFinish(o)

SpecCompress == InitCompress /\ [][NextCompress]_vars

\* the merge tool on a picked batch of two PDFs and an image
InitMerge == Picked(SeqsUpTo({FileA, FileB, FileP}, MaxFiles))

NextMerge ==
  \/ SelectTool("merge")
  \/ BackToTools
  \/ HandleMergePDFs
  \/ \E o \in ops : OpThrow(o)
  \/ \E o \in ops : OpFinish(o)

SpecMerge == InitMerge /\ [][NextMerge]_vars

\* the editor on a PDF of one page or of several
InitEditor == InitApp /\ EditorMounted({FileA, FileB})

NextEditor ==
  \/ \E index \in 0..(MaxLoads - 1) : LoadPDFResolve(index)
  \/ \E index \in 0..(MaxLoads - 1) : LoadPDFReject(index)
  \/ \E index \in 0..(MaxLoads - 1) : LoadPDFInfoResolve(index)
  \/ \E index \in 0..(MaxLoads - 1) : LoadPDFInfoReject(index)
  \/ PreviousPage
  \/ NextPage
  \/ \E index \in 0..(MaxObjs - 1) : RenderResolve(index)
  \/ \E index \in 0..(MaxObjs - 1) : RenderReject(index)
  \/ \E tool \in {"select", "draw"} : SetActiveTool(tool)
  \/ \E stroke \in Strokes : PathCreated(stroke)
  \/ HandleUndo
  \/ HandleClear

SpecEditor == InitEditor /\ [][NextEditor]_vars

\* the tool panel and the mouse on the canvas
NextMouse ==
  \/ \E index \in 0..(MaxLoads - 1) : LoadPDFResolve(index)
  \/ \E index \in 0..(MaxObjs - 1) : RenderResolve(index)
  \/ \E tool \in EditorTools : SetActiveTool(tool)
  \/ \E pointer \in Pointers : MouseDown(pointer)
  \/ \E stroke \in Strokes : PathCreated(stroke)
  \/ HandleUndo

SpecMouse == InitEditor /\ [][NextMouse]_vars

\* the busy flags: either the page with a picked PDF and two tools of the
\* toolbar, or the form editor on a PDF; every suspended handler settles in
\* the end
InitBusy ==
  \/ Picked(Singles({FileA}))
  \/ InitApp /\ FormEditorMounted({FileB})

NextBusy ==
  \/ \E t \in {"split", "image-to-pdf"} : SelectTool(t)
  \/ BackToTools
  \/ HandleSplitPDF
  \/ HandleImageToPDF
  \/ \E o \in ops : OpThrow(o)
  \/ \E o \in ops : OpFinish(o)
  \/ \E index \in 0..(MaxLoads - 1) : EditorLoadResolve(index)
  \/ \E index \in 0..(MaxLoads - 1) : EditorLoadReject(index)
  \/ NextPage
  \/ \E tool \in {"text", "rotate", "crop"} : SetActiveTool(tool)
  \/ HandleToolAction
  \/ \E direction \in {"cw", "ccw"} : RotatePage(direction)
  \/ \E e \in edits : EditThrow(e)
  \/ \E e \in edits : EditFinish(e)

\* the step that ends the toolbar handler `id`: its OpFinish or its OpThrow,
\* of which the second is possible as long as the handler is suspended
OpSettles(id) == \E o \in ops : o.id = id /\ ops' = ops \ {o}

\* the step that ends a form-editor handler: EditFinish or EditThrow
EditSettles == \E e \in edits : edits' = edits \ {e}

\* the library calls a handler awaits settle, and the handler goes on to
\* its end
Settles ==
  /\ \A id \in 1..MaxOps : WF_ops(OpSettles(id))
  /\ WF_edits(EditSettles)

SpecBusy == InitBusy /\ [][NextBusy]_vars /\ Settles

\* the loads of either editor while the parent changes the file, every
\* load resolving
InitLoad ==
  /\ InitApp
  /\ \/ EditorMounted({FileA, FileB})
     \/ FormEditorMounted({FileA, FileB})

NextLoad ==
  \/ \E f \in {FileA, FileB} : SetFile(f)
  \/ \E index \in 0..(MaxLoads - 1) : LoadPDFResolve(index)
  \/ \E index \in 0..(MaxLoads - 1) : LoadPDFInfoResolve(index)
  \/ \E index \in 0..(MaxLoads - 1) : EditorLoadResolve(index)

SpecLoad == InitLoad /\ [][NextLoad]_vars

\* ---- page specifications: items, their text, the pages they list
\* An item <<a, b>> is the range a-b; <<a>> is the page a.
ItemsUpTo(n) == {<<a>> : a \in 1..n} \cup ((1..n) \X (1..n))

\* decimal digits of a positive number
RECURSIVE Decimal(_)
Decimal(n) ==
  IF n < 10 THEN <<Digits[n + 1]>>
  ELSE Append(Decimal(n \div 10), Digits[(n % 10) + 1])

\* the text of an item, `pad` around each number
ItemText(item, pad) ==
  IF Len(item) = 1 THEN pad \o Decimal(item[1]) \o pad
  ELSE pad \o Decimal(item[1]) \o pad \o <<"-">> \o pad \o Decimal(item[2]) \o pad

\* the text of a list of items, separated by commas
RECURSIVE SpecText(_, _)
SpecText(items, pad) ==
  IF Len(items) = 1 THEN ItemText(items[1], pad)
  ELSE ItemText(Head(items), pad) \o <<",">> \o SpecText(Tail(items), pad)

\* the 1-based page numbers an item lists
ItemPages(item) ==
  IF Len(item) = 1 THEN <<item[1]>>
  ELSE [k \in 1..(item[2] - item[1] + 1) |-> item[1] + k - 1]

ListedPages(items) == Flat([k \in 1..Len(items) |-> ItemPages(items[k])])

\* a <= b and every page within the document
ItemValid(item, npages) ==
  /\ \A k \in 1..Len(item) : item[k] \in 1..npages
  /\ Len(item) = 2 => item[1] <= item[2]

Pads == {<<>>, <<" ">>}

\* the item lists explored: one item or two, over the pages of the larger
\* document (pages the smaller one does not have)
ItemLists ==
  {<<i>> : i \in ItemsUpTo(MaxPage)}
    \cup (ItemsUpTo(MaxPage) \X ItemsUpTo(MaxPage))

\* what is typed into the Page Range field: the texts of the item lists
\* and some text that lists nothing
TypedSpecs ==
  {SpecText(items, pad) : items \in ItemLists, pad \in Pads}
    \cup {<<>>, <<"x">>, <<"1", "-">>, <<"0">>}

\* the split tool with a page specification typed in
InitSplit ==
  /\ selectedTool = "split"
  /\ uploadedFiles \in SeqsUpTo({FileA, FileB}, 2)
  /\ uploaderFiles = <<>>
  /\ processedFiles = <<>>
  /\ processing = FALSE
  /\ splitPages \in TypedSpecs
  /\ compressionLevel = DefaultCompressionLevel
  /\ mergeOrder = MergeOrderEffect(uploadedFiles)
  /\ ops = {}
  /\ opCount = 0
  /\ toast = <<>>
  /\ event = IF splitPages = DefaultSplitPages
             THEN Event("setSelectedTool", "split")
             ELSE Event("setSplitPages", splitPages)
  /\ NoEditor

NextSplit ==
  \/ HandleSplitPDF
  \/ \E o \in ops : OpThrow(o)
  \/ \E o \in ops : OpFinish(o)

SpecSplit == InitSplit /\ [][NextSplit]_vars

\* ================================================================ claims
\* the step is handler `kind` running to its end after its last await
Finishes(kind) == event'.name = "finish" /\ event'.arg.kind = kind

Finished(kind) == event.name = "finish" /\ event.arg.kind = kind

\* the step appends exactly one entry to processedFiles
EmitsOne ==
  /\ Len(processedFiles') = Len(processedFiles) + 1
  /\ SubSeq(processedFiles', 1, Len(processedFiles)) = processedFiles

Emitted == processedFiles'[Len(processedFiles')]

\* the pages of every PDF of a list, file by file in list order
RECURSIVE AllPdfPages(_)
AllPdfPages(files) ==
  IF files = <<>> THEN <<>>
  ELSE (IF IsPDF(Head(files))
        THEN [k \in 1..Head(files).npages |-> Page(Head(files).name, k, <<>>)]
        ELSE <<>>) \o AllPdfPages(Tail(files))

\* C1: a merge that runs to its end appends exactly one file, named
\* merged_document.pdf, whose pages are the pages of every PDF of the
\* uploaded list (the list the click saw), each PDF once, in upload order;
\* the other files of the list add nothing and displace nothing.
C1_MergeKeepsUploadOrder ==
  [][Finishes("merge") =>
       /\ Len(PdfFiles(event'.arg.files)) >= 2
       /\ EmitsOne
       /\ Emitted.name = <<"merged_document.pdf">>
       /\ Emitted.blob.pages = AllPdfPages(event'.arg.files)]_vars

\* C1 witness: a merge of a list with an image between two different PDFs
\* has run to its end
C1_Witness ==
  /\ Finished("merge")
  /\ event.arg.files = <<FileA, FileP, FileB>>
  /\ Len(processedFiles) = 1
  /\ Len(processedFiles[1].blob.pages) = FileA.npages + FileB.npages

\* the item lists whose every item is valid for a document of npages pages
ValidItemLists(npages) ==
  {items \in ItemLists : \A k \in 1..Len(items) : ItemValid(items[k], npages)}

\* C2: a split that runs to its end on a page specification of valid items
\* (page numbers and ranges a-b with a <= b within the first file, with or
\* without spaces around the numbers) appends exactly one file whose pages
\* are the listed pages of the first uploaded file, in the order listed,
\* repeated where listed twice, and its success toast reports their number.
C2_SplitExtractsListedPages ==
  [][Finishes("split") =>
       LET file == event'.arg.files[1]
       IN  \A items \in ValidItemLists(file.npages), pad \in Pads :
             event'.arg.splitPages = SpecText(items, pad) =>
               /\ EmitsOne
               /\ Emitted.blob.pages =
                    [k \in 1..Len(ListedPages(items)) |->
                       Page(file.name, ListedPages(items)[k], <<>>)]
               /\ toast'[2].title = "PDF Split Successfully"
               /\ toast'[2].arg = Len(ListedPages(items))]_vars

\* C2 witness: " 2 , 1 - 2 " has been split out of a PDF with another file
\* after it: page 2, then pages 1 and 2
C2_Witness ==
  /\ Finished("split")
  /\ event.arg.files = <<FileA, FileB>>
  /\ event.arg.splitPages = SpecText(<< <<2>>, <<1, 2>> >>, <<" ">>)
  /\ Len(processedFiles[Len(processedFiles)].blob.pages) = 3

FailTitles ==
  {"Split Failed", "Merge Failed", "Conversion Failed", "Compression Failed",
   "Edit Failed"}

\* C3: when a toolbar handler throws after its validation, the step calls
\* no onFileProcessed (processedFiles is unchanged), leaves the uploaded
\* lists unchanged and shows one destructive failure toast.
C3_FailureIsCaughtAndToasted ==
  [][event'.name = "throw" =>
       /\ processedFiles' = processedFiles
       /\ uploadedFiles' = uploadedFiles
       /\ uploaderFiles' = uploaderFiles
       /\ Len(toast') = 1
       /\ toast'[1].variant = "destructive"
       /\ toast'[1].title \in FailTitles]_vars

\* C3 witness: a handler has thrown while an earlier result was listed
C3_Witness ==
  /\ event.name = "throw"
  /\ Len(processedFiles) = 1
  /\ Len(uploadedFiles) > 1
  /\ toast[1].variant = "destructive"

\* a file the uploader says it supports: PDF or image, at most 50MB
Supported(file) ==
  /\ file.type = Mime("application", "pdf") \/ file.type.major = "image"
  /\ file.size <= 52428800

RECURSIVE Keep(_, _)
Keep(files, want) ==
  IF files = <<>> THEN <<>>
  ELSE (IF Supported(Head(files)) = want THEN <<Head(files)>> ELSE <<>>)
         \o Keep(Tail(files), want)

IsSuffix(t, s) ==
  Len(t) <= Len(s) /\ SubSeq(s, Len(s) - Len(t) + 1, Len(s)) = t

DestructiveToasts == SelectSeq(toast, LAMBDA t : t.variant = "destructive")

\* C4: every file in the uploader's list and in Index.uploadedFiles is a
\* PDF or an image of at most 50MB (a file of exactly 50MB is kept); and
\* after a batch, each unsupported file of it has raised one destructive
\* toast naming it, and the supported files of the batch are the end of
\* both lists.
C4_OnlySupportedFilesListed ==
  /\ \A k \in 1..Len(uploaderFiles) : Supported(uploaderFiles[k])
  /\ \A k \in 1..Len(uploadedFiles) : Supported(uploadedFiles[k])
  /\ event.name \in {"handleFileInput", "handleDrop"} =>
       LET bad  == Keep(event.arg, FALSE)
           good == Keep(event.arg, TRUE)
       IN  /\ Len(DestructiveToasts) = Len(bad)
           /\ \A k \in 1..Len(bad) : DestructiveToasts[k].arg = bad[k].name
           /\ good # <<>> =>
                /\ IsSuffix(good, uploaderFiles)
                /\ IsSuffix(good, uploadedFiles)

\* C4 witness: a batch of a PDF over the limit and a PDF of exactly 50MB
\* has been handled: one toast for the first, the second listed
C4_Witness ==
  /\ event.name = "handleFileInput"
  /\ event.arg = <<FileX, FileA>>
  /\ FileA.size = 50 * 1024 * 1024
  /\ Len(uploaderFiles) = 2
  /\ uploaderFiles[2] = FileA
  /\ Len(toast) = 2

\* C5: processedFiles only grows: a handler that runs to its end appends
\* exactly one entry, and no other step (upload, removal, tool switch, a
\* click, a failure) changes the list; so of two handlers in flight both
\* entries are listed, whichever ends first.
C5_ProcessedFilesOnlyGrow ==
  [][/\ event'.name = "finish" => EmitsOne
     /\ event'.name # "finish" => processedFiles' = processedFiles]_vars

\* C5 witness: the handler started first has ended after the one started
\* second, and both results are listed
C5_Witness ==
  /\ event.name = "finish"
  /\ event.arg.id = 1
  /\ Len(processedFiles) = 2
  /\ processedFiles[1].name # processedFiles[2].name

\* one page per image file, in list order
RECURSIVE OnePagePerImage(_)
OnePagePerImage(files) ==
  IF files = <<>> THEN <<>>
  ELSE (IF Head(files).type.major = "image" THEN <<Head(files).name>> ELSE <<>>)
         \o OnePagePerImage(Tail(files))

\* C6: an image-to-PDF conversion that runs to its end appends exactly one
\* file, images_to_pdf.pdf, with one page per uploaded image file in upload
\* order, and its success toast reports as many images as the file has
\* pages.
C6_OnePagePerImage ==
  [][Finishes("image-to-pdf") =>
       LET images == OnePagePerImage(event'.arg.files)
       IN  /\ EmitsOne
           /\ Emitted.name = <<"images_to_pdf.pdf">>
           /\ Len(Emitted.blob.pages) = Len(images)
           /\ \A k \in 1..Len(images) : Emitted.blob.pages[k].src = images[k]
           /\ toast'[2].arg = Len(Emitted.blob.pages)]_vars

\* C7: of two compressions of the same PDF started with different
\* Compression Level values, the one with the higher level yields the
\* larger file.
C7_LevelOrdersOutputSize ==
  \A o1, o2 \in ops :
    /\ o1.kind = "compress" /\ o2.kind = "compress"
    /\ o1.files[1] = o2.files[1]
    /\ o1.compressionLevel < o2.compressionLevel
    => BlobSize(OutBlob(o1)) < BlobSize(OutBlob(o2))

\* C8: a click on Merge PDFs with fewer than two PDFs uploaded shows the
\* error 'Please upload at least 2 PDF files to merge', leaves processing
\* false, starts no load and emits nothing.
C8_MergeNeedsTwoPdfs ==
  [][(event'.name = "click" /\ event'.arg = "merge"
        /\ Len(SelectSeq(uploadedFiles,
                         LAMBDA f : f.type = Mime("application", "pdf"))) < 2) =>
       /\ Len(toast') = 1
       /\ toast'[1].description = "Please upload at least 2 PDF files to merge"
       /\ toast'[1].variant = "destructive"
       /\ processing = FALSE /\ processing' = FALSE
       /\ ops' = ops
       /\ processedFiles' = processedFiles]_vars

\* C8 witness: Merge PDFs clicked with one PDF and one image uploaded
C8_Witness ==
  /\ event = Event("click", "merge")
  /\ uploadedFiles = <<FileA, FileP>>
  /\ toast[1].title = "Error"

FirstFileTools == {"split", "compress", "edit"}

PleaseUpload ==
  {"Please upload a PDF file to split", "Please upload a PDF file to compress",
   "Please upload a PDF file to edit"}

\* C9: split, compress and edit look at the first uploaded file only.  A
\* click with a first file that is no PDF shows the tool's 'Please upload a
\* PDF file' error, leaves processing false and starts nothing, whatever
\* follows in the list; and a handler that runs to its end emits what it
\* emits for the first file alone: every page comes from the first file.
C9_FirstFileOnly ==
  [][/\ (event'.name = "click" /\ event'.arg \in FirstFileTools
           /\ uploadedFiles[1].type # Mime("application", "pdf")) =>
          /\ Len(toast') = 1
          /\ toast'[1].description \in PleaseUpload
          /\ toast'[1].variant = "destructive"
          /\ processing = FALSE /\ processing' = FALSE
          /\ ops' = ops
          /\ processedFiles' = processedFiles
     /\ (event'.name = "finish" /\ event'.arg.kind \in FirstFileTools) =>
          LET o     == event'.arg
              alone == [o EXCEPT !.files = <<o.files[1]>>]
          IN  /\ EmitsOne
              /\ Emitted.name = OutName(alone)
              /\ Emitted.blob = OutBlob(alone)
              /\ \A k \in 1..Len(Emitted.blob.pages) :
                   Emitted.blob.pages[k].src = o.files[1].name]_vars

\* C9 witness: a first-file tool clicked with an image first and a PDF
\* after it
C9_Witness ==
  /\ event.name = "click"
  /\ event.arg \in FirstFileTools
  /\ uploadedFiles = <<FileP, FileA>>
  /\ toast[1].title = "Error"

\* C10 (as the claim states it): handleClear on a canvas that displays the
\* rendered current page with annotations on it leaves no annotation on the
\* canvas and leaves the image of the current page displayed.
C10_ClearKeepsPageBackground ==
  [][(/\ event'.name = "handleClear"
      /\ Displays(objects, pdfDoc, currentPage)
      /\ Annotations(objects) # <<>>)
     => /\ Annotations(objects') = <<>>
        /\ Displays(objects', pdfDoc', currentPage')]_vars

\* C11 (as the claim states it): a mouse:down on the canvas while Text,
\* Rectangle or Circle is the active tool adds exactly one object of that
\* kind at the pointer position, on top of the objects already there.
C11_MouseDownPlacesActiveTool ==
  [][(/\ event'.name = "mouse:down"
      /\ activeTool \in {"text", "rectangle", "circle"})
     => objects' = objects \o Placed(activeTool, event'.arg)]_vars

\* C12 (as the claim states it): a batch with at least one valid file, picked
\* or dropped, is appended after the files the uploader already lists, which
\* stay, in their order.
C12_UploadsAccumulate ==
  [][(/\ event'.name \in {"handleFileInput", "handleDrop"}
      /\ Keep(event'.arg, TRUE) # <<>>)
     => uploaderFiles' = uploaderFiles \o Keep(event'.arg, TRUE)]_vars

\* C13 (as the claim states it): in every reachable state Index.uploadedFiles
\* equals the list held and displayed by the mounted FileUploader.
C13_PageAndUploaderAgree == uploadedFiles = uploaderFiles

\* C14: a toolbar handler or a form-editor handler that has set its busy
\* flag sets it back in the end, whether its awaited calls resolve or
\* reject, and no toolbar handler stays suspended; a click rejected by
\* validation (a toolbar click on unfit files, a rotate without a document)
\* leaves the flag false and starts nothing.
C14_BusyFlagAlwaysClears ==
  /\ [][(event'.name = "click" /\ toast' # <<>>)
        => (~processing' /\ ops' = ops)]_vars
  /\ [][(event'.name = "rotatePage" /\ editorDoc = <<>>)
        => (~editorProcessing' /\ edits' = edits)]_vars
  /\ processing ~> ~processing
  /\ editorProcessing ~> ~editorProcessing
  /\ (ops # {}) ~> (ops = {})

\* C14 witness: a toolbar handler has just failed on its mounted toolbar and
\* cleared the flag, after an earlier one has saved its file
C14_Witness ==
  /\ event.name = "throw"
  /\ event.arg.live
  /\ ~processing
  /\ ops = {}
  /\ Len(processedFiles) = 1

\* C15 (as the claim states it): at most one PDFToolbar handler is suspended
\* at any moment.
C15_OneOperationAtATime == Cardinality(ops) <= 1

\* C16 (as the claim states it): once every load has settled, in whatever
\* order, the documents and the page count the editor holds are those of the
\* file it is rendered with: PDFCanvas's pdfDoc and totalPages in the canvas
\* editor, PDFEditor's pdfDoc and totalPages in the form editor.
C16_LoadedDocumentIsCurrent ==
  (pdfFile # <<>> /\ loading = <<>>) =>
    /\ totalPages = pdfFile[1].npages
    /\ IF fabricCanvas THEN pdfDoc = pdfFile
       ELSE editorDoc = <<PDFDocumentOf(pdfFile[1])>>

\* the page images on the canvas
PageImages(objs) == SelectSeq(objs, LAMBDA obj : obj.type = "image")

\* C17 (as the claim states it): handleUndo removes the annotation added
\* last and nothing else, it never removes a page image, and while the
\* canvas holds no annotation canUndo is false and handleUndo changes
\* nothing.
C17_UndoRemovesLastAnnotationOnly ==
  /\ [](Annotations(objects) = <<>> => ~canUndo)
  /\ [][event'.name = "handleUndo"
        => LET drawn == Annotations(objects) IN
           /\ PageImages(objects') = PageImages(objects)
           /\ Annotations(objects') =
                IF drawn = <<>> THEN <<>>
                ELSE SubSeq(drawn, 1, Len(drawn) - 1)]_vars

====
